---- MODULE Spec2Model ----
(***************************************************************************)
(* Model of scripts/deploy_async.py: the per-device deploy task            *)
(* (apply_delta), its helpers (get_running_config, compute_delta,          *)
(* backup_device, validate_post) and the thread-pool fan-out in main.      *)
(*                                                                         *)
(* A configuration line is a sequence of one-character strings; a text is  *)
(* a sequence of characters in which "\n" ends a line.                     *)
(***************************************************************************)
EXTENDS Integers, Sequences, FiniteSets, TLC

VARIABLES
    \* ---- harness for compute_delta as a pure function
    in_running,     \* argument `running`
    in_intended,    \* argument `intended`
    out_delta,      \* returned delta
    called,         \* TRUE once compute_delta returned
    \* ---- environment of a run
    inventory,      \* load_inventory(): device names in inventory order
    scenario,       \* per device: configuration at the start of the run and rendered file
    plan,           \* per device: the call that raises ("none", a call, or "any")
    now,            \* UTC clock, in seconds (it stands still during a run)
    \* ---- device behind each session
    active,         \* committed (running) configuration, a sequence of lines
    candidate,      \* lines pushed in configuration mode and not yet committed
    saved,          \* configuration persisted by `save`
    mode,           \* "closed", "operational" or "config"
    \* ---- apply_delta, one task per device
    pc,             \* position of the task
    delta,          \* local `delta`
    backup_path,    \* local `backup_path` (<<>> while unset)
    evidence,       \* validate_post's `outputs`
    result,         \* the `result` dict
    calls,          \* session calls and file writes the task has issued, in order
    raised,         \* the call that raised in the task, or "none"
    \* ---- shared directories
    BACKUP_DIR,     \* file key <<name, stamp>> -> text
    LOG_DIR,        \* device name -> validation log
    \* ---- main and its ThreadPoolExecutor
    queue,          \* submitted tasks no worker has taken yet
    worker,         \* per worker thread: the task it runs, or "idle"
    mainPc,         \* position of main
    nsub,           \* number of tasks submitted
    rows,           \* rows added to the table, in collection order
    \* ---- two runs in a row
    run,            \* 1 or 2
    forced,         \* device whose connect is made to raise in run 2, or "none"
    rows1,          \* the rows of run 1
    applied1        \* devices whose task of run 1 completed its apply sequence

harnessVars == <<in_running, in_intended, out_delta, called>>
envVars     == <<inventory, scenario, plan>>
devVars     == <<active, candidate, saved, mode>>
taskVars    == <<pc, delta, backup_path, evidence, result, calls, raised>>
fileVars    == <<BACKUP_DIR, LOG_DIR>>
poolVars    == <<queue, worker, mainPc, nsub, rows>>
isoVars     == <<run, forced, rows1, applied1>>

vars == <<harnessVars, envVars, now, devVars, taskVars, fileVars, poolVars, isoVars>>

(***************************************************************************)
(* Bounds of the compute_delta harness.                                    *)
(***************************************************************************)
MaxPad      == 1    \* whitespace characters around an intended line
MaxRunning  == 1    \* lines in `running`
MaxIntended == 2    \* lines in `intended`

RECURSIVE SeqsUpTo(_, _)
SeqsUpTo(S, n) ==
    IF n = 0 THEN {<<>>}
    ELSE LET shorter == SeqsUpTo(S, n - 1)
         IN  shorter \cup {Append(s, x) : s \in {t \in shorter : Len(t) = n - 1}, x \in S}

\* a statement, a statement with inner whitespace, a comment, nothing
Cores == {<<"a">>, <<"a", " ", "b">>, <<"#">>, <<>>}

Pad(n) == [i \in 1..n |-> " "]

\* lines of `intended`: a core with whitespace before and after it
InputLines ==
    {Pad(x[1]) \o c \o Pad(x[2]) :
        x \in {y \in (0..MaxPad) \X (0..MaxPad) : y[1] + y[2] <= MaxPad}, c \in Cores}

\* lines of `running`: the cores, and a statement the device prints with a
\* trailing blank
RunningLines == Cores \cup {<<"a", " ">>}

(***************************************************************************)
(* Python string helpers.                                                  *)
(***************************************************************************)
IsSpace(c) == c \in {" ", "\t", "\n", "\r"}

RECURSIVE lstrip(_)
lstrip(s) ==
    IF s = <<>> THEN <<>>
    ELSE IF IsSpace(Head(s)) THEN lstrip(Tail(s)) ELSE s

RECURSIVE rstrip(_)
rstrip(s) ==
    IF s = <<>> THEN <<>>
    ELSE IF IsSpace(s[Len(s)]) THEN rstrip(SubSeq(s, 1, Len(s) - 1)) ELSE s

\* str.strip(): leading and trailing whitespace removed, inner kept
strip(s) == rstrip(lstrip(s))

startswith(s, c) == s # <<>> /\ Head(s) = c

Range(s) == {s[i] : i \in 1..Len(s)}

(***************************************************************************)
(* compute_delta (deploy_async.py 35-50)                                   *)
(***************************************************************************)
\* faulty variant: membership tested on the untrimmed intended line
compute_delta_rawtest(running, intended) ==
    LET running_set == Range(running)
        RECURSIVE loop(_, _)
        loop(i, acc) ==
            IF i > Len(intended) THEN acc
            ELSE LET line == strip(intended[i])
                 IN  IF line = <<>> \/ startswith(line, "#")
                     THEN loop(i + 1, acc)
                     ELSE IF intended[i] \notin running_set
                          THEN loop(i + 1, Append(acc, line))
                          ELSE loop(i + 1, acc)
    IN  loop(1, <<>>)

\* faulty variant: the test against running_set is missing
compute_delta_notest(running, intended) ==
    LET RECURSIVE loop(_, _)
        loop(i, acc) ==
            IF i > Len(intended) THEN acc
            ELSE LET line == strip(intended[i])
                 IN  IF line = <<>> \/ startswith(line, "#")
                     THEN loop(i + 1, acc)
                     ELSE loop(i + 1, Append(acc, line))
    IN  loop(1, <<>>)

\* faulty variant: delta.insert(0, line) instead of delta.append(line)
compute_delta_prepend(running, intended) ==
    LET running_set == Range(running)
        RECURSIVE loop(_, _)
        loop(i, acc) ==
            IF i > Len(intended) THEN acc
            ELSE LET line == strip(intended[i])
                 IN  IF line = <<>> \/ startswith(line, "#")
                     THEN loop(i + 1, acc)
                     ELSE IF line \notin running_set
                          THEN loop(i + 1, <<line>> \o acc)
                          ELSE loop(i + 1, acc)
    IN  loop(1, <<>>)

compute_delta(running, intended) ==
    LET running_set == Range(running)
        RECURSIVE loop(_, _)
        loop(i, acc) ==
            IF i > Len(intended) THEN acc
            ELSE LET line == strip(intended[i])
                 IN  IF line = <<>> \/ startswith(line, "#")
                     THEN loop(i + 1, acc)
                     ELSE IF line \notin running_set
                          THEN loop(i + 1, Append(acc, line))
                          ELSE loop(i + 1, acc)
    IN  loop(1, <<>>)

(***************************************************************************)
(* Texts and files.                                                        *)
(***************************************************************************)
NL == "\n"

\* "\n".join(lines)
RECURSIVE JoinLines(_)
JoinLines(lines) ==
    IF lines = <<>> THEN <<>>
    ELSE IF Len(lines) = 1 THEN lines[1]
    ELSE lines[1] \o <<NL>> \o JoinLines(Tail(lines))

\* the lines of txt, when `cur` is the piece read since the last line end
RECURSIVE scan_lines(_, _)
scan_lines(txt, cur) ==
    IF txt = <<>> THEN (IF cur = <<>> THEN <<>> ELSE <<cur>>)
    ELSE IF Head(txt) = NL THEN <<cur>> \o scan_lines(Tail(txt), <<>>)
    ELSE scan_lines(Tail(txt), Append(cur, Head(txt)))

\* str.splitlines(): pieces between line ends, no empty piece after the last one
splitlines(txt) == scan_lines(txt, <<>>)

\* l.rstrip("\n")
RECURSIVE rstrip_nl(_)
rstrip_nl(s) ==
    IF s = <<>> THEN <<>>
    ELSE IF s[Len(s)] = NL THEN rstrip_nl(SubSeq(s, 1, Len(s) - 1)) ELSE s

\* pathlib.Path.write_text: creates the file or replaces its content
write_text(dir, key, txt) ==
    [k \in DOMAIN dir \cup {key} |-> IF k = key THEN txt ELSE dir[k]]

NoFiles == [k \in {} |-> <<>>]

(***************************************************************************)
(* Inventory, rendered files and device configurations of a run.           *)
(***************************************************************************)
MaxWorkers == 2     \* --max-workers of the run

Devices == {"R1", "R2", "R3"}
Workers == 1..MaxWorkers

Inventories == {<<"R1">>, <<"R1", "R2">>, <<"R1", "R2", "R3">>}

Host(d) == <<"host", d>>

SetA == <<"s", " ", "a">>
SetB == <<"s", " ", "b">>
SetC == <<"s", " ", "c">>
Comment == <<"#", "x">>

\* running = ["s a"], intended = ["s a", "s b"]
ScenarioA == [running  |-> <<SetA>>,
              intended |-> SetA \o <<NL>> \o SetB \o <<NL>>]
\* running and intended equal as sets
ScenarioB == [running  |-> <<SetA, SetB>>,
              intended |-> SetB \o <<NL>> \o SetA \o <<NL>>]
\* an indented line, a comment and a blank line in the rendered file
ScenarioC == [running  |-> <<SetA>>,
              intended |-> Comment \o <<NL, " ">> \o SetC \o <<" ", NL, NL>>
                              \o SetA \o <<NL>> \o SetB \o <<NL>>]

\* the device prints its only line with a trailing blank
ScenarioD == [running  |-> <<SetA \o <<" ">>>>,
              intended |-> SetA \o <<NL>>]

Scenarios == {ScenarioA, ScenarioB, ScenarioC, ScenarioD}

\* the fleet of the runs over three devices
Fleet == [d \in Devices |-> CASE d = "R1" -> ScenarioA
                               [] d = "R2" -> ScenarioB
                               [] OTHER    -> ScenarioC]

\* the calls of a task that can raise
Calls == {"connect", "show_running", "show_backup", "write_backup",
          "config_mode", "send_config_set", "commit", "save",
          "exit_config_mode", "show_ospf", "show_bgp", "show_route",
          "write_log"}

DiagOutputs == {"signature", "empty"}

MsgAlready  == "already in desired state"
MsgApplied  == "applied delta and validated"
MsgRollback == " (validation flagged issues; manual rollback recommended using backup file)"
MsgError    == "error: "

Submitted == {inventory[i] : i \in 1..nsub}
InInventory == Range(inventory)
HasRow(rs, d) == \E i \in 1..Len(rs) : rs[i].name = d
RowOf(rs, d) == rs[CHOOSE i \in 1..Len(rs) : rs[i].name = d]
Finished(d) == pc[d] \in {"returned", "raised"}

\* the call raises in this run
MustRaise(d, call) ==
    \/ plan[d] = call
    \/ call = "connect" /\ run = 2 /\ d = forced
MayRaise(d, call) == plan[d] = "any" \/ MustRaise(d, call)

\* output of "show configuration commands"
show_configuration(d) == JoinLines(active[d])

(***************************************************************************)
(* get_running_config (deploy_async.py 24-27)                              *)
(***************************************************************************)
get_running_config(txt) ==
    LET ls == splitlines(txt)
    IN  [i \in 1..Len(ls) |-> rstrip_nl(ls[i])]

\* intended = [l.strip() for l in intended_file.read_text().splitlines()]
read_intended(txt) ==
    LET ls == splitlines(txt)
    IN  [i \in 1..Len(ls) |-> strip(ls[i])]

(***************************************************************************)
(* State of a run before main starts submitting.                           *)
(***************************************************************************)
Config0 == [d \in Devices |-> scenario[d].running]
Empty0  == [d \in Devices |-> <<>>]
\* result = {"name": name, "host": host, "changed": False, "ok": True, "message": ""}
Result0 == [d \in Devices |-> [name |-> d, host |-> Host(d), changed |-> FALSE,
                               ok |-> TRUE, message |-> <<>>]]

RunStart ==
    /\ active = Config0
    /\ candidate = Empty0
    /\ saved = Config0
    /\ mode = [d \in Devices |-> "closed"]
    /\ pc = [d \in Devices |-> "unsubmitted"]
    /\ delta = Empty0
    /\ backup_path = Empty0
    /\ evidence = Empty0
    /\ result = Result0
    /\ calls = Empty0
    /\ raised = [d \in Devices |-> "none"]
    /\ BACKUP_DIR = NoFiles
    /\ LOG_DIR = NoFiles
    /\ queue = <<>>
    /\ worker = [w \in Workers |-> "idle"]
    /\ mainPc = "submit"
    /\ nsub = 0
    /\ rows = <<>>
    /\ now = 0

HarnessIdle ==
    /\ in_running = <<>>
    /\ in_intended = <<>>
    /\ out_delta = <<>>
    /\ called = FALSE

Init ==
    /\ HarnessIdle
    /\ inventory \in Inventories
    /\ scenario \in [Devices -> Scenarios]
    /\ \A d \in Devices \ Range(inventory) : scenario[d] = Fleet[d]
    /\ Len(inventory) = Cardinality(Devices) => scenario = Fleet
    /\ plan = [d \in Devices |-> "any"]
    /\ run = 1
    /\ forced = "none"
    /\ rows1 = <<>>
    /\ applied1 = {}
    /\ RunStart

(***************************************************************************)
(* main (deploy_async.py 153-167): fan-out over a ThreadPoolExecutor.      *)
(***************************************************************************)
\* pool.submit(apply_delta, name, vars["host"], written[name])
Submit ==
    /\ mainPc = "submit"
    /\ nsub < Len(inventory)
    /\ LET d == inventory[nsub + 1]
       IN  /\ pc' = [pc EXCEPT ![d] = "queued"]
           /\ queue' = Append(queue, d)
    /\ nsub' = nsub + 1
    /\ mainPc' = IF nsub + 1 = Len(inventory) THEN "collect" ELSE "submit"
    /\ UNCHANGED <<harnessVars, envVars, now, devVars, fileVars, isoVars>>
    /\ UNCHANGED <<delta, backup_path, evidence, result, calls, raised, worker, rows>>

\* faulty variant: a task is started although the worker thread is busy
StartTask_unbounded(w) ==
    /\ queue # <<>>
    /\ worker' = [worker EXCEPT ![w] = Head(queue)]
    /\ queue' = Tail(queue)
    /\ pc' = [pc EXCEPT ![Head(queue)] = "connect"]
    /\ UNCHANGED <<harnessVars, envVars, now, devVars, fileVars, isoVars>>
    /\ UNCHANGED <<delta, backup_path, evidence, result, calls, raised, mainPc, nsub, rows>>

\* an idle worker thread takes the oldest queued task
StartTask(w) ==
    /\ worker[w] = "idle"
    /\ queue # <<>>
    /\ worker' = [worker EXCEPT ![w] = Head(queue)]
    /\ queue' = Tail(queue)
    /\ pc' = [pc EXCEPT ![Head(queue)] = "connect"]
    /\ UNCHANGED <<harnessVars, envVars, now, devVars, fileVars, isoVars>>
    /\ UNCHANGED <<delta, backup_path, evidence, result, calls, raised, mainPc, nsub, rows>>

\* the worker thread that ran task d is idle again
release(d) == [w \in Workers |-> IF worker[w] = d THEN "idle" ELSE worker[w]]

\* as_completed yields a finished future; fut.result() returns the dict
Collect(d) ==
    /\ mainPc = "collect"
    /\ d \in Submitted
    /\ pc[d] = "returned"
    /\ ~HasRow(rows, d)
    /\ rows' = Append(rows, result[d])
    /\ UNCHANGED <<harnessVars, envVars, now, devVars, taskVars, fileVars, isoVars>>
    /\ UNCHANGED <<queue, worker, mainPc, nsub>>

\* fut.result() re-raises the exception the task ended with: main leaves
\* the loop, and the with-block waits for the pool to shut down
CollectRaises(d) ==
    /\ mainPc = "collect"
    /\ d \in Submitted
    /\ pc[d] = "raised"
    /\ mainPc' = "unwinding"
    /\ UNCHANGED <<harnessVars, envVars, now, devVars, taskVars, fileVars, isoVars>>
    /\ UNCHANGED <<queue, worker, nsub, rows>>

\* all futures consumed: the with-block ends, the table is printed, return 0
FinishMain ==
    /\ mainPc = "collect"
    /\ \A d \in InInventory : HasRow(rows, d)
    /\ mainPc' = "done"
    /\ UNCHANGED <<harnessVars, envVars, now, devVars, taskVars, fileVars, isoVars>>
    /\ UNCHANGED <<queue, worker, nsub, rows>>

\* shutdown(wait=True) returned: the exception leaves main
Unwind ==
    /\ mainPc = "unwinding"
    /\ \A d \in InInventory : Finished(d)
    /\ mainPc' = "crashed"
    /\ UNCHANGED <<harnessVars, envVars, now, devVars, taskVars, fileVars, isoVars>>
    /\ UNCHANGED <<queue, worker, nsub, rows>>

(***************************************************************************)
(* apply_delta (deploy_async.py 90-134)                                    *)
(***************************************************************************)
\* faulty variant: the empty delta is not recognised
FastPath_never(dl) == FALSE

\* `if not delta` (line 100)
FastPath(dl) == dl = <<>>

\* faulty variant: a diagnostic without its signature fails the verdict
validate_post_hard(outputs) ==
    \A i \in 1..Len(outputs) : outputs[i][2] = "signature"

\* the verdict validate_post returns (lines 68, 88)
validate_post_ok(outputs) == TRUE

\* faulty variant: result["changed"] = True is missing
result_applied_unchanged(r, ok) ==
    [r EXCEPT !.ok = ok, !.message = <<MsgApplied>>]

\* lines 116-118
result_applied(r, ok) ==
    [r EXCEPT !.changed = TRUE, !.ok = ok, !.message = <<MsgApplied>>]

\* faulty variant: the backup is loaded and committed after validation
rollback_calls_load(ok) == <<"config_mode", "send_config_set", "commit">>

\* session calls of the `if not ok` branch (lines 121-123)
rollback_calls(ok) == IF ~ok THEN <<"config_mode">> ELSE <<>>

\* commit on the device: candidate lines become part of the running configuration
Committed(d) ==
    active[d] \o SelectSeq(candidate[d], LAMBDA l : l \notin Range(active[d]))

\* faulty variant: the except clause without the finally, the session stays open
Except_nofinally(d, before, call) ==
    /\ raised' = [raised EXCEPT ![d] = call]
    /\ result' = [result EXCEPT ![d].ok = FALSE, ![d].message = <<MsgError, call>>]
    /\ calls' = [calls EXCEPT ![d] = @ \o before \o <<call>>]
    /\ pc' = [pc EXCEPT ![d] = "returned"]
    /\ candidate' = [candidate EXCEPT ![d] = <<>>]
    /\ worker' = release(d)
    /\ UNCHANGED <<harnessVars, envVars, now, fileVars, isoVars>>
    /\ UNCHANGED <<delta, backup_path, evidence, queue, mainPc, nsub, rows, mode>>

\* a call in the try block raised: except clause, then finally (lines 129-134);
\* `before` are the calls of the same step that returned
Except(d, before, call) ==
    /\ raised' = [raised EXCEPT ![d] = call]
    /\ result' = [result EXCEPT ![d].ok = FALSE, ![d].message = <<MsgError, call>>]
    /\ calls' = [calls EXCEPT ![d] = @ \o before \o <<call, "disconnect">>]
    /\ pc' = [pc EXCEPT ![d] = "returned"]
    /\ mode' = [mode EXCEPT ![d] = "closed"]
    /\ candidate' = [candidate EXCEPT ![d] = <<>>]
    /\ worker' = release(d)
    /\ UNCHANGED <<harnessVars, envVars, now, fileVars, isoVars>>
    /\ UNCHANGED <<delta, backup_path, evidence, queue, mainPc, nsub, rows>>

\* a call of the try block returned and the task goes on to `next`
Proceed(d, call, next) ==
    /\ calls' = [calls EXCEPT ![d] = Append(@, call)]
    /\ pc' = [pc EXCEPT ![d] = next]
    /\ UNCHANGED <<harnessVars, envVars, now, fileVars, poolVars, isoVars>>
    /\ UNCHANGED <<delta, backup_path, result, raised>>

\* conn = connect(host) (line 93). deploy_async.py imports `connect` from
\* common, which defines connect_from_vars only; the call is modelled as the
\* session acquisition it stands for: it returns a session or raises.
ConnectOk(d) ==
    /\ pc[d] = "connect"
    /\ ~MustRaise(d, "connect")
    /\ mode' = [mode EXCEPT ![d] = "operational"]
    /\ Proceed(d, "connect", "show_running")
    /\ UNCHANGED <<active, candidate, saved, evidence>>

\* connect raises outside the try block: the exception ends the task
ConnectRaises(d) ==
    /\ pc[d] = "connect"
    /\ MayRaise(d, "connect")
    /\ raised' = [raised EXCEPT ![d] = "connect"]
    /\ calls' = [calls EXCEPT ![d] = Append(@, "connect")]
    /\ pc' = [pc EXCEPT ![d] = "raised"]
    /\ worker' = release(d)
    /\ UNCHANGED <<harnessVars, envVars, now, devVars, fileVars, isoVars>>
    /\ UNCHANGED <<delta, backup_path, evidence, result, queue, mainPc, nsub, rows>>

\* lines 96-102: running and intended are read, the delta is computed, and an
\* empty delta ends the task
GetRunningConfig(d) ==
    /\ pc[d] = "show_running"
    /\ ~MustRaise(d, "show_running")
    /\ LET running == get_running_config(show_configuration(d))
           intended == read_intended(scenario[d].intended)
           dl == compute_delta(running, intended)
       IN  /\ delta' = [delta EXCEPT ![d] = dl]
           /\ IF FastPath(dl)
              THEN /\ result' = [result EXCEPT ![d].message = <<MsgAlready>>]
                   /\ calls' = [calls EXCEPT ![d] = @ \o <<"show_running", "disconnect">>]
                   /\ pc' = [pc EXCEPT ![d] = "returned"]
                   /\ mode' = [mode EXCEPT ![d] = "closed"]
                   /\ worker' = release(d)
              ELSE /\ calls' = [calls EXCEPT ![d] = Append(@, "show_running")]
                   /\ pc' = [pc EXCEPT ![d] = "backup"]
                   /\ UNCHANGED <<result, mode, worker>>
    /\ UNCHANGED <<harnessVars, envVars, now, fileVars, isoVars>>
    /\ UNCHANGED <<active, candidate, saved, backup_path, evidence, raised>>
    /\ UNCHANGED <<queue, mainPc, nsub, rows>>

GetRunningConfigRaises(d) ==
    /\ pc[d] = "show_running"
    /\ MayRaise(d, "show_running")
    /\ Except(d, <<>>, "show_running")
    /\ UNCHANGED <<active, saved>>

\* backup_device (lines 52-57), called at line 105
backup_device(d) ==
    /\ pc[d] = "backup"
    /\ ~MustRaise(d, "show_backup")
    /\ ~MustRaise(d, "write_backup")
    /\ LET txt == show_configuration(d)
           p == <<d, now>>
       IN  /\ BACKUP_DIR' = write_text(BACKUP_DIR, p, txt)
           /\ backup_path' = [backup_path EXCEPT ![d] = p]
    /\ calls' = [calls EXCEPT ![d] = @ \o <<"show_backup", "write_backup">>]
    /\ pc' = [pc EXCEPT ![d] = "config_mode"]
    /\ UNCHANGED <<harnessVars, envVars, now, devVars, LOG_DIR, poolVars, isoVars>>
    /\ UNCHANGED <<delta, evidence, result, raised>>

BackupShowRaises(d) ==
    /\ pc[d] = "backup"
    /\ MayRaise(d, "show_backup")
    /\ Except(d, <<>>, "show_backup")
    /\ UNCHANGED <<active, saved>>

\* faulty variant: a failed write of the backup is ignored and the task goes on
BackupWriteRaises_ignored(d) ==
    /\ pc[d] = "backup"
    /\ ~MustRaise(d, "show_backup")
    /\ MayRaise(d, "write_backup")
    /\ calls' = [calls EXCEPT ![d] = @ \o <<"show_backup", "write_backup">>]
    /\ pc' = [pc EXCEPT ![d] = "config_mode"]
    /\ UNCHANGED <<harnessVars, envVars, now, devVars, fileVars, poolVars, isoVars>>
    /\ UNCHANGED <<delta, backup_path, evidence, result, raised>>

BackupWriteRaises(d) ==
    /\ pc[d] = "backup"
    /\ ~MustRaise(d, "show_backup")
    /\ MayRaise(d, "write_backup")
    /\ Except(d, <<"show_backup">>, "write_backup")
    /\ UNCHANGED <<active, saved>>

\* conn.config_mode() (line 108)
ConfigMode(d) ==
    /\ pc[d] = "config_mode"
    /\ ~MustRaise(d, "config_mode")
    /\ mode' = [mode EXCEPT ![d] = "config"]
    /\ Proceed(d, "config_mode", "send_config_set")
    /\ UNCHANGED <<active, candidate, saved, evidence>>

\* faulty variant: the whole rendered file is pushed instead of the delta
SendConfigSet_intended(d) ==
    /\ pc[d] = "send_config_set"
    /\ ~MustRaise(d, "send_config_set")
    /\ candidate' = [candidate EXCEPT ![d] = @ \o read_intended(scenario[d].intended)]
    /\ Proceed(d, "send_config_set", "commit")
    /\ UNCHANGED <<active, saved, mode, evidence>>

\* conn.send_config_set(delta, exit_config_mode=False) (line 109)
SendConfigSet(d) ==
    /\ pc[d] = "send_config_set"
    /\ ~MustRaise(d, "send_config_set")
    /\ candidate' = [candidate EXCEPT ![d] = @ \o delta[d]]
    /\ Proceed(d, "send_config_set", "commit")
    /\ UNCHANGED <<active, saved, mode, evidence>>

\* commit (line 110)
Commit(d) ==
    /\ pc[d] = "commit"
    /\ ~MustRaise(d, "commit")
    /\ active' = [active EXCEPT ![d] = Committed(d)]
    /\ candidate' = [candidate EXCEPT ![d] = <<>>]
    /\ Proceed(d, "commit", "save")
    /\ UNCHANGED <<saved, mode, evidence>>

\* save (line 111)
Save(d) ==
    /\ pc[d] = "save"
    /\ ~MustRaise(d, "save")
    /\ saved' = [saved EXCEPT ![d] = active[d]]
    /\ Proceed(d, "save", "exit_config_mode")
    /\ UNCHANGED <<active, candidate, mode, evidence>>

\* conn.exit_config_mode() (line 112)
ExitConfigMode(d) ==
    /\ pc[d] = "exit_config_mode"
    /\ ~MustRaise(d, "exit_config_mode")
    /\ mode' = [mode EXCEPT ![d] = "operational"]
    /\ Proceed(d, "exit_config_mode", "show_ospf")
    /\ UNCHANGED <<active, candidate, saved, evidence>>

\* config_mode, send_config_set or exit_config_mode raises: nothing was committed
ApplyStepRaises(d) ==
    /\ pc[d] \in {"config_mode", "send_config_set", "exit_config_mode"}
    /\ MayRaise(d, pc[d])
    /\ Except(d, <<>>, pc[d])
    /\ UNCHANGED <<active, saved>>

\* faulty variant: the error of commit is swallowed and the task goes on to save
CommitRaises_ignored(d) ==
    /\ pc[d] = "commit"
    /\ MayRaise(d, "commit")
    /\ raised' = [raised EXCEPT ![d] = "commit"]
    /\ calls' = [calls EXCEPT ![d] = Append(@, "commit")]
    /\ pc' = [pc EXCEPT ![d] = "save"]
    /\ UNCHANGED <<harnessVars, envVars, now, devVars, fileVars, poolVars, isoVars>>
    /\ UNCHANGED <<delta, backup_path, evidence, result>>

\* commit raises (error or timeout): the device may or may not have committed
CommitRaises(d) ==
    /\ pc[d] = "commit"
    /\ MayRaise(d, "commit")
    /\ \E took \in BOOLEAN :
          active' = [active EXCEPT ![d] = IF took THEN Committed(d) ELSE @]
    /\ Except(d, <<>>, "commit")
    /\ UNCHANGED saved

\* save raises (error or timeout): the device may or may not have saved
SaveRaises(d) ==
    /\ pc[d] = "save"
    /\ MayRaise(d, "save")
    /\ \E took \in BOOLEAN :
          saved' = [saved EXCEPT ![d] = IF took THEN active[d] ELSE @]
    /\ Except(d, <<>>, "save")
    /\ UNCHANGED active

(***************************************************************************)
(* validate_post (deploy_async.py 59-88), called at line 115               *)
(***************************************************************************)
\* outputs a diagnostic command may return; runs over a single device go
\* through every output, the others through one
Outputs(d) == IF plan[d] = "any" /\ Len(inventory) = 1 THEN DiagOutputs ELSE {"empty"}

\* one send_command of validate_post and its outputs.append
Diagnostic(d, call, hdr, next) ==
    /\ pc[d] = call
    /\ ~MustRaise(d, call)
    /\ \E out \in Outputs(d) :
          evidence' = [evidence EXCEPT ![d] = Append(@, <<hdr, out>>)]
    /\ calls' = [calls EXCEPT ![d] = Append(@, call)]
    /\ pc' = [pc EXCEPT ![d] = next]
    /\ UNCHANGED <<harnessVars, envVars, now, devVars, fileVars, poolVars, isoVars>>
    /\ UNCHANGED <<delta, backup_path, raised>>

ValidateOspf(d) ==
    /\ Diagnostic(d, "show_ospf", "\nshow ip ospf neighbor", "show_bgp")
    /\ UNCHANGED result

ValidateBgp(d) ==
    /\ Diagnostic(d, "show_bgp", "\nshow ip bgp summary", "show_route")
    /\ UNCHANGED result

\* the last command; validate_post returns and lines 116-118 fill the result
ValidateRoute(d) ==
    /\ Diagnostic(d, "show_route", "\nshow ip route | match 0.0.0.0/0", "write_log")
    /\ result' = [result EXCEPT ![d] = result_applied(@, validate_post_ok(evidence'[d]))]

\* a diagnostic command raises inside validate_post
ValidateRaises(d) ==
    /\ pc[d] \in {"show_ospf", "show_bgp", "show_route"}
    /\ MayRaise(d, pc[d])
    /\ Except(d, <<>>, pc[d])
    /\ UNCHANGED <<active, saved>>

\* lines 119-127 and the finally clause: the validation log is written, the
\* `if not ok` branch runs when the verdict is failing, the task returns
WriteLog(d) ==
    /\ pc[d] = "write_log"
    /\ ~MustRaise(d, "write_log")
    /\ LOG_DIR' = write_text(LOG_DIR, d, evidence[d])
    /\ result' = [result EXCEPT ![d].message =
                      IF ~result[d].ok THEN @ \o <<MsgRollback>> ELSE @]
    /\ calls' = [calls EXCEPT ![d] =
                      @ \o <<"write_log">> \o rollback_calls(result[d].ok) \o <<"disconnect">>]
    /\ pc' = [pc EXCEPT ![d] = "returned"]
    /\ mode' = [mode EXCEPT ![d] = "closed"]
    /\ worker' = release(d)
    /\ UNCHANGED <<harnessVars, envVars, now, BACKUP_DIR, isoVars>>
    /\ UNCHANGED <<active, candidate, saved, delta, backup_path, evidence, raised>>
    /\ UNCHANGED <<queue, mainPc, nsub, rows>>

WriteLogRaises(d) ==
    /\ pc[d] = "write_log"
    /\ MayRaise(d, "write_log")
    /\ Except(d, <<>>, "write_log")
    /\ UNCHANGED <<active, saved>>

apply_delta(d) ==
    \/ ConnectOk(d)
    \/ ConnectRaises(d)
    \/ GetRunningConfig(d)
    \/ GetRunningConfigRaises(d)
    \/ backup_device(d)
    \/ BackupShowRaises(d)
    \/ BackupWriteRaises(d)
    \/ ConfigMode(d)
    \/ SendConfigSet(d)
    \/ Commit(d)
    \/ Save(d)
    \/ ExitConfigMode(d)
    \/ ApplyStepRaises(d)
    \/ CommitRaises(d)
    \/ SaveRaises(d)
    \/ ValidateOspf(d)
    \/ ValidateBgp(d)
    \/ ValidateRoute(d)
    \/ ValidateRaises(d)
    \/ WriteLog(d)
    \/ WriteLogRaises(d)

main ==
    \/ Submit
    \/ \E w \in Workers : StartTask(w)
    \/ \E d \in Devices : Collect(d)
    \/ \E d \in Devices : CollectRaises(d)
    \/ FinishMain
    \/ Unwind

Next ==
    \/ main
    \/ \E d \in Devices : apply_delta(d)

Spec == Init /\ [][Next]_vars

(***************************************************************************)
(* Two runs over the same inventory, files, device configurations and      *)
(* device behaviour; in the second one the connect of `forced` raises.     *)
(***************************************************************************)
IsoInventory == <<"R1", "R2">>
IsoScenarios == {ScenarioA, ScenarioB, ScenarioC}

InitIso ==
    /\ HarnessIdle
    /\ inventory = IsoInventory
    /\ scenario \in [Devices -> IsoScenarios]
    /\ \A d \in Devices \ Range(inventory) : scenario[d] = Fleet[d]
    /\ plan \in [Devices -> Calls \cup {"none"}]
    /\ \A d \in Devices \ Range(inventory) : plan[d] = "none"
    /\ run = 1
    /\ forced \in Range(inventory)
    /\ plan[forced] # "connect"
    /\ rows1 = <<>>
    /\ applied1 = {}
    /\ RunStart

\* the first run is over; the second starts from the same state
StartSecondRun ==
    /\ run = 1
    /\ forced # "none"
    /\ mainPc \in {"done", "crashed"}
    /\ run' = 2
    /\ rows1' = rows
    /\ active' = Config0
    /\ candidate' = Empty0
    /\ saved' = Config0
    /\ mode' = [d \in Devices |-> "closed"]
    /\ pc' = [d \in Devices |-> "unsubmitted"]
    /\ delta' = Empty0
    /\ backup_path' = Empty0
    /\ evidence' = Empty0
    /\ result' = Result0
    /\ calls' = Empty0
    /\ raised' = [d \in Devices |-> "none"]
    /\ BACKUP_DIR' = NoFiles
    /\ LOG_DIR' = NoFiles
    /\ queue' = <<>>
    /\ worker' = [w \in Workers |-> "idle"]
    /\ mainPc' = "submit"
    /\ nsub' = 0
    /\ rows' = <<>>
    /\ UNCHANGED <<harnessVars, envVars, now, forced, applied1>>

NextIso ==
    \/ main
    \/ \E d \in Devices : apply_delta(d)
    \/ StartSecondRun

SpecIso == InitIso /\ [][NextIso]_vars

(***************************************************************************)
(* Properties of a run (checked under Spec).                               *)
(***************************************************************************)
Count(s, x) == Cardinality({i \in 1..Len(s) : s[i] = x})
Issued(d, call) == call \in Range(calls[d])
BackupsOf(d) == {k \in DOMAIN BACKUP_DIR : k[1] = d}
MainOver == mainPc \in {"done", "crashed"}

ApplyCalls == {"config_mode", "send_config_set", "commit", "save"}
BackupCalls == {"show_backup", "write_backup"}
DiagCalls == {"show_ospf", "show_bgp", "show_route"}

\* C1: whenever a task has entered configuration mode or pushed, committed
\* or saved anything, its backup was written before that call and holds the
\* running configuration from before the change; a task whose backup
\* capture raised has issued none of these calls.
C1_BackupBeforeApply ==
    \A d \in Devices :
        /\ \A i \in 1..Len(calls[d]) :
              calls[d][i] \in ApplyCalls =>
                  /\ \E j \in 1..(i - 1) : calls[d][j] = "write_backup"
                  /\ raised[d] \notin BackupCalls
                  /\ backup_path[d] \in DOMAIN BACKUP_DIR
                  /\ BACKUP_DIR[backup_path[d]] = JoinLines(scenario[d].running)
        /\ raised[d] \in BackupCalls =>
              \A c \in ApplyCalls \cup {"exit_config_mode"} : ~Issued(d, c)

\* one task has committed its delta while the backup capture of another raised
C1_Witness ==
    \E d, e \in Devices :
        /\ Issued(d, "commit") /\ Issued(d, "save")
        /\ raised[e] \in BackupCalls /\ pc[e] = "returned"

\* C2: every exception of a task, the one of connect included, ends as a
\* result with ok=false and an error message (changed=false at connect), and
\* none reaches the collection loop of main.
C2_ExceptionsCaught ==
    /\ \A d \in Devices :
          raised[d] # "none" =>
              /\ pc[d] = "returned"
              /\ result[d].ok = FALSE
              /\ result[d].message = <<MsgError, raised[d]>>
              /\ raised[d] = "connect" => result[d].changed = FALSE
    /\ mainPc \notin {"unwinding", "crashed"}

\* C3: when main is over it has collected exactly one result per device of
\* the inventory.
C3_OneResultPerDevice ==
    MainOver =>
        /\ Len(rows) = Len(inventory)
        /\ \A d \in InInventory : Count([i \in 1..Len(rows) |-> rows[i].name], d) = 1

\* C4: a task that computed an empty delta returns changed=false, ok=true,
\* "already in desired state", and has left the device configuration, the
\* backup store and the validation logs as they were: it issued nothing but
\* connect, the read of the running configuration and disconnect.
C4_FastPathNoEffects ==
    \A d \in Devices :
        (pc[d] = "returned" /\ raised[d] = "none" /\ delta[d] = <<>>) =>
            /\ result[d] = [name |-> d, host |-> Host(d), changed |-> FALSE,
                            ok |-> TRUE, message |-> <<MsgAlready>>]
            /\ active[d] = scenario[d].running
            /\ saved[d] = scenario[d].running
            /\ candidate[d] = <<>>
            /\ BackupsOf(d) = {}
            /\ backup_path[d] = <<>>
            /\ d \notin DOMAIN LOG_DIR
            /\ calls[d] = <<"connect", "show_running", "disconnect">>

\* a task has returned on the fast path while another one has applied a delta
C4_Witness ==
    \E d, e \in Devices :
        /\ pc[d] = "returned" /\ raised[d] = "none" /\ delta[d] = <<>>
        /\ Issued(d, "show_running")
        /\ Issued(e, "commit")

\* C5: a task whose apply sequence succeeded and whose validation failed (a
\* diagnostic command raised) returns ok=false, changed=true and a message
\* that points to the backup for manual recovery.
C5_FlaggedResult ==
    \A d \in Devices :
        (pc[d] = "returned" /\ raised[d] \in DiagCalls) =>
            /\ result[d].ok = FALSE
            /\ result[d].changed = TRUE
            /\ MsgRollback \in Range(result[d].message)

\* C6: when the second run is over, every device other than the forced one
\* has a result in both runs or in neither, with the same ok and changed.
C6_Isolation ==
    (run = 2 /\ MainOver) =>
        \A d \in InInventory \ {forced} :
            /\ HasRow(rows1, d) <=> HasRow(rows, d)
            /\ (HasRow(rows1, d) /\ HasRow(rows, d)) =>
                  /\ RowOf(rows1, d).ok = RowOf(rows, d).ok
                  /\ RowOf(rows1, d).changed = RowOf(rows, d).changed

\* C7: after a task has left configuration mode it issues no further push,
\* commit or save and reads no backup back, whatever validation does; each
\* of push, commit and save is issued at most once.
C7_NoRollback ==
    \A d \in Devices :
        /\ \A i, j \in 1..Len(calls[d]) :
              (i < j /\ calls[d][i] = "exit_config_mode") =>
                  calls[d][j] \notin {"send_config_set", "commit", "save", "read_backup"}
        /\ \A c \in {"send_config_set", "commit", "save"} : Count(calls[d], c) <= 1
        /\ ~Issued(d, "read_backup")

\* one task returned after a passing validation, another after a
\* diagnostic command raised
C7_Witness ==
    \E d, e \in Devices :
        /\ pc[d] = "returned" /\ raised[d] = "none" /\ Issued(d, "show_route")
        /\ pc[e] = "returned" /\ raised[e] \in DiagCalls

\* C8: a task with a non-empty delta in which no call raised returns
\* changed=true and ok=true and has created exactly one backup artifact; in
\* Scenario A the delta is the single line "s b".
C8_SuccessfulApply ==
    \A d \in Devices :
        (pc[d] = "returned" /\ raised[d] = "none" /\ delta[d] # <<>>) =>
            /\ result[d].changed = TRUE
            /\ result[d].ok = TRUE
            /\ Cardinality(BackupsOf(d)) = 1
            /\ Count(calls[d], "write_backup") = 1
            /\ scenario[d] = ScenarioA => delta[d] = <<SetB>>

\* a task of Scenario A has returned without any call raising
C8_Witness ==
    \E d \in Devices :
        /\ scenario[d] = ScenarioA
        /\ pc[d] = "returned" /\ raised[d] = "none"
        /\ Issued(d, "write_log")

(***************************************************************************)
(* Harness for compute_delta as a pure function.                           *)
(***************************************************************************)
\* no run is in progress: nothing is in the inventory
NoRun ==
    /\ inventory = <<>>
    /\ scenario = Fleet
    /\ plan = [d \in Devices |-> "none"]
    /\ run = 1
    /\ forced = "none"
    /\ rows1 = <<>>
    /\ applied1 = {}
    /\ RunStart

InitDelta ==
    /\ in_running \in SeqsUpTo(RunningLines, MaxRunning)
    /\ in_intended \in SeqsUpTo(InputLines, MaxIntended)
    /\ out_delta = <<>>
    /\ called = FALSE
    /\ NoRun

CallComputeDelta ==
    /\ ~called
    /\ out_delta' = compute_delta(in_running, in_intended)
    /\ called' = TRUE
    /\ UNCHANGED <<in_running, in_intended>>
    /\ UNCHANGED <<envVars, now, devVars, taskVars, fileVars, poolVars, isoVars>>

NextDelta == CallComputeDelta

SpecDelta == InitDelta /\ [][NextDelta]_vars

(***************************************************************************)
(* Properties of compute_delta (checked under SpecDelta).                  *)
(***************************************************************************)
\* the intended lines as compute_delta compares them: trimmed, with blank
\* and comment lines dropped
Normalized(intended) ==
    LET keep(l) == l # <<>> /\ ~startswith(l, "#")
    IN  SelectSeq([i \in 1..Len(intended) |-> strip(intended[i])], keep)

\* d is obtained from s by deleting elements
RECURSIVE IsSubsequence(_, _)
IsSubsequence(d, s) ==
    IF d = <<>> THEN TRUE
    ELSE IF s = <<>> THEN FALSE
    ELSE IF Head(d) = Head(s) THEN IsSubsequence(Tail(d), Tail(s))
    ELSE IsSubsequence(d, Tail(s))

\* C9 as stated: every delta line is a member of `intended` (as passed in)
\* and is not a member of `running`.
C9_AdditivityRaw ==
    called => \A l \in Range(out_delta) :
                  l \in Range(in_intended) /\ l \notin Range(in_running)

\* C9 amended: every delta line is the trimmed form of a member of
\* `intended` and is not a member of `running`.
C9_Additivity ==
    called => \A l \in Range(out_delta) :
                  /\ \E m \in Range(in_intended) : l = strip(m)
                  /\ l \notin Range(in_running)

\* a delta line that comes from an intended line with surrounding
\* whitespace, while another intended line is on the device already
C9_Witness ==
    /\ called
    /\ \E m \in Range(in_intended) : strip(m) # m /\ strip(m) \in Range(out_delta)
    /\ \E r \in Range(in_running) : r \in Range(Normalized(in_intended))

\* C10: the delta is a subsequence of the normalized intended sequence, in
\* intended order, holding exactly the normalized lines that are not in the
\* set of running lines.
C10_OrderPreserved ==
    called =>
        LET norm == Normalized(in_intended)
            absent == {i \in 1..Len(norm) : norm[i] \notin Range(in_running)}
        IN  /\ IsSubsequence(out_delta, norm)
            /\ Len(out_delta) = Cardinality(absent)
            /\ Range(out_delta) = {norm[i] : i \in absent}

\* a delta of two different lines, one of them written with surrounding
\* whitespace in `intended`, computed against a non-empty `running`
C10_Witness ==
    /\ called
    /\ Len(out_delta) = 2
    /\ out_delta[1] # out_delta[2]
    /\ \E m \in Range(in_intended) : strip(m) # m
    /\ in_running # <<>>

(***************************************************************************)
(* Further properties of a run (checked under Spec).                       *)
(***************************************************************************)
\* the task has read the running configuration and computed its delta
DeltaComputed(d) == Issued(d, "show_running") /\ raised[d] # "show_running"

\* the set of ConfigLines of a sequence of lines: trimmed, blank and comment
\* lines left out
ConfigLines(lines) == Range(Normalized(lines))

\* C11: the delta a task computed is empty exactly when the ConfigLines of
\* the rendered file are a subset of the ConfigLines of the running
\* configuration the device printed.
C11_EmptyIffSubset ==
    \A d \in Devices :
        DeltaComputed(d) =>
            (delta[d] = <<>> <=>
                ConfigLines(splitlines(scenario[d].intended))
                    \subseteq ConfigLines(get_running_config(JoinLines(scenario[d].running))))

(***************************************************************************)
(* A deploy run followed by a second one over the same inventory and       *)
(* rendered files: devices and directories keep their state, the clock     *)
(* goes on.                                                                *)
(***************************************************************************)
MaxClock == 1       \* seconds the clock may advance

RerunInventories == {<<"R1">>, <<"R1", "R2">>}

\* the task completed its apply sequence: commit, save and exit returned
Applied(d) == Issued(d, "exit_config_mode") /\ raised[d] # "exit_config_mode"

InitRerun ==
    /\ HarnessIdle
    /\ inventory \in RerunInventories
    /\ scenario \in [Devices -> Scenarios]
    /\ \A d \in Devices \ Range(inventory) : scenario[d] = Fleet[d]
    /\ Len(inventory) > 1 => scenario = Fleet
    /\ plan = [d \in Devices |-> "any"]
    /\ run = 1
    /\ forced = "none"
    /\ rows1 = <<>>
    /\ applied1 = {}
    /\ RunStart

\* the process of the first run has ended; deploy_async.py is started again
NextRun ==
    /\ run = 1
    /\ forced = "none"
    /\ MainOver
    /\ run' = 2
    /\ applied1' = {d \in Devices : Applied(d)}
    /\ candidate' = Empty0
    /\ mode' = [d \in Devices |-> "closed"]
    /\ pc' = [d \in Devices |-> "unsubmitted"]
    /\ delta' = Empty0
    /\ backup_path' = Empty0
    /\ evidence' = Empty0
    /\ result' = Result0
    /\ calls' = Empty0
    /\ raised' = [d \in Devices |-> "none"]
    /\ queue' = <<>>
    /\ worker' = [w \in Workers |-> "idle"]
    /\ mainPc' = "submit"
    /\ nsub' = 0
    /\ rows' = <<>>
    /\ UNCHANGED <<harnessVars, envVars, now, active, saved, fileVars, forced, rows1>>

\* a second passes
Tick ==
    /\ now < MaxClock
    /\ now' = now + 1
    /\ UNCHANGED <<harnessVars, envVars, devVars, taskVars, fileVars, poolVars, isoVars>>

NextRerun ==
    \/ main
    \/ \E d \in Devices : apply_delta(d)
    \/ NextRun
    \/ Tick

SpecRerun == InitRerun /\ [][NextRerun]_vars

\* C12: once a task has completed its apply sequence, compute_delta of the
\* running configuration the device now prints against the same rendered file
\* is empty; the task of the next run for that device computes an empty delta
\* and, when no call raises, returns changed=false on the fast path without
\* writing a backup.
C12_Idempotence ==
    \A d \in Devices :
        /\ Applied(d) =>
              compute_delta(get_running_config(show_configuration(d)),
                            read_intended(scenario[d].intended)) = <<>>
        /\ (run = 2 /\ d \in applied1) =>
              /\ delta[d] = <<>>
              /\ ~Issued(d, "write_backup")
              /\ (pc[d] = "returned" /\ raised[d] = "none") =>
                    /\ result[d].changed = FALSE
                    /\ result[d].message = <<MsgAlready>>

\* the second task of a device that applied a delta in the first run has
\* returned without any call raising
C12_Witness ==
    \E d \in Devices :
        /\ run = 2
        /\ d \in applied1
        /\ scenario[d] # ScenarioB
        /\ pc[d] = "returned"
        /\ raised[d] = "none"

\* C13: the engine only adds lines: what a task has pushed are lines of its
\* delta, and the running configuration of a device holds at every moment
\* the lines it held when the run started, in their order, followed by
\* nothing but delta lines.
C13_StrictlyAdditive ==
    \A d \in Devices :
        LET before == scenario[d].running
        IN  /\ Range(candidate[d]) \subseteq Range(delta[d])
            /\ Len(active[d]) >= Len(before)
            /\ SubSeq(active[d], 1, Len(before)) = before
            /\ Range(active[d]) \subseteq Range(before) \cup Range(delta[d])
            /\ Range(before) \subseteq Range(saved[d])

\* one task has committed new lines and returned, another returned after
\* its commit raised
C13_Witness ==
    \E d, e \in Devices :
        /\ pc[d] = "returned" /\ raised[d] = "none"
        /\ active[d] # scenario[d].running
        /\ pc[e] = "returned" /\ raised[e] = "commit"

\* sys.exit(main()) (lines 169-170): main returns 0 at line 167; an
\* exception that leaves main ends the process with status 1
exit_status == IF mainPc = "crashed" THEN 1 ELSE 0

\* C14: when the run is over, the process signals success exactly when
\* every device of the inventory has a result with ok=true.
C14_ExitReflectsResults ==
    MainOver =>
        (exit_status = 0 <=>
            \A d \in InInventory : HasRow(rows, d) /\ RowOf(rows, d).ok = TRUE)

\* the apply steps and validation, in program order
ApplySequence == <<"config_mode", "send_config_set", "commit", "save",
                   "exit_config_mode", "show_ospf", "show_bgp", "show_route",
                   "write_log">>
ApplySteps == {"config_mode", "send_config_set", "commit", "save", "exit_config_mode"}

\* C15: the apply and validation calls a task has issued are a prefix of
\* config_mode, send_config_set, commit, save, exit_config_mode, the three
\* diagnostics, the log write; the delta is pushed once and whole; when an
\* apply step raised it is the last call before disconnect, no validation
\* was run, and the task returned ok=false.
C15_ApplyOrder ==
    \A d \in Devices :
        LET steps == SelectSeq(calls[d], LAMBDA c : c \in Range(ApplySequence))
        IN  /\ Len(steps) <= Len(ApplySequence)
            /\ steps = SubSeq(ApplySequence, 1, Len(steps))
            /\ pc[d] = "commit" => candidate[d] = delta[d]
            /\ raised[d] \in ApplySteps =>
                  /\ steps[Len(steps)] = raised[d]
                  /\ SubSeq(calls[d], Len(calls[d]) - 1, Len(calls[d]))
                        = <<raised[d], "disconnect">>
                  /\ \A c \in DiagCalls \cup {"write_log"} : ~Issued(d, c)
                  /\ pc[d] = "returned"
                  /\ result[d].ok = FALSE

\* one task went through the whole sequence, in another commit raised
C15_Witness ==
    \E d, e \in Devices :
        /\ pc[d] = "returned" /\ raised[d] = "none" /\ Issued(d, "write_log")
        /\ pc[e] = "returned" /\ raised[e] = "commit"
        /\ Len(delta[e]) > 1


\* C16: a returned task whose result has changed=false never issued
\* send_config_set on its session.
C16_ChangedReflectsPush ==
    \A d \in Devices :
        (pc[d] = "returned" /\ result[d].changed = FALSE)
            => ~Issued(d, "send_config_set")


\* C17: no write of a task replaces a file that already exists: the step
\* that writes the validation log finds no log of that device, and the step
\* that writes the backup finds no backup under the path it computed.
C17_WriteOnce ==
    [][\A d \in Devices :
          /\ (pc[d] = "write_log" /\ pc'[d] = "returned" /\ raised'[d] = "none")
                => d \notin DOMAIN LOG_DIR
          /\ (pc[d] = "backup" /\ pc'[d] = "config_mode")
                => <<d, now>> \notin DOMAIN BACKUP_DIR]_vars


\* a run over the whole fleet: more devices than worker threads
InitFair == Init /\ Len(inventory) = Cardinality(Devices)

\* an idle thread of the pool takes the next work item from the queue
SpecFair == InitFair /\ [][Next]_vars /\ WF_vars(\E w \in Workers : StartTask(w))

\* tasks a worker thread is executing
InProgress == {d \in Devices : pc[d] \notin {"unsubmitted", "queued", "returned", "raised"}}

C18_Bounded ==
    /\ Cardinality(InProgress) <= MaxWorkers
    /\ \A d \in InProgress : Cardinality({w \in Workers : worker[w] = d}) = 1
    /\ \A w \in Workers : worker[w] # "idle" => worker[w] \in InProgress
    /\ \A i \in 1..Len(queue) : pc[queue[i]] = "queued"
    /\ \A w \in Workers : (worker[w] = "idle" /\ queue # <<>>) => ENABLED StartTask(w)
    /\ \A d \in InProgress : ENABLED (GetRunningConfigRaises(d) \/ apply_delta(d))

\* provided running tasks finish: when every worker is busy, one of them
\* eventually ends its task
RunningTasksFinish ==
    (\A w \in Workers : worker[w] # "idle") ~> (\E w \in Workers : worker[w] = "idle")

\* C18: at most MaxWorkers tasks are in progress, each on exactly one
\* worker and each worker on one task at a time; an idle worker can always
\* start the head of the queue and a task in progress can always take a
\* step, whatever the other tasks are waiting for; provided the tasks in
\* progress end, every queued task is eventually started.
C18_BoundedConcurrency ==
    /\ []C18_Bounded
    /\ RunningTasksFinish => \A d \in Devices : (pc[d] = "queued") ~> (pc[d] # "queued")

\* the bound binds: every worker is busy and a submitted task waits
C18_Witness ==
    /\ \A w \in Workers : worker[w] # "idle"
    /\ Cardinality(InProgress) = MaxWorkers
    /\ queue # <<>>


\* connect(host) returned a session to task d
Acquired(d) == Issued(d, "connect") /\ raised[d] # "connect"

C19_Released ==
    \A d \in Devices :
        /\ Count(calls[d], "connect") <= 1
        /\ calls[d] # <<>> => calls[d][1] = "connect"
        /\ Issued(d, "disconnect") =>
              /\ Acquired(d)
              /\ Count(calls[d], "disconnect") = 1
              /\ calls[d][Len(calls[d])] = "disconnect"
        /\ (Acquired(d) /\ Finished(d)) => (Issued(d, "disconnect") /\ mode[d] = "closed")
        /\ (Acquired(d) /\ ~Finished(d)) => (~Issued(d, "disconnect") /\ mode[d] # "closed")
        /\ ~Acquired(d) => mode[d] = "closed"
        /\ mode[d] # "closed" => Cardinality({w \in Workers : worker[w] = d}) = 1

\* a step that issues a call on the session of d, or changes its mode or the
\* configuration behind it, is a step of the task of d and of no other
C19_OwnSession ==
    \A d \in Devices :
        (calls'[d] # calls[d] \/ mode'[d] # mode[d] \/ active'[d] # active[d]
             \/ candidate'[d] # candidate[d] \/ saved'[d] # saved[d]) =>
            /\ d \in InProgress
            /\ \A e \in Devices \ {d} :
                  /\ calls'[e] = calls[e] /\ mode'[e] = mode[e]
                  /\ active'[e] = active[e] /\ candidate'[e] = candidate[e]
                  /\ saved'[e] = saved[e]

\* C19: a task issues calls only on its own session; a session that was
\* acquired is disconnected exactly once before the task yields its result,
\* on the fast path, after a successful apply and after an exception at any
\* step; a session that was never acquired is never disconnected; no call
\* follows the disconnect.
C19_SessionRelease == []C19_Released /\ [][C19_OwnSession]_vars

\* one run in which a task ended on the fast path, one applied its delta and
\* one ended by an exception after its session was acquired
C19_Witness ==
    \E d, e, f \in Devices :
        /\ pc[d] = "returned" /\ raised[d] = "none" /\ delta[d] = <<>>
        /\ pc[e] = "returned" /\ raised[e] = "none" /\ Issued(e, "write_log")
        /\ pc[f] = "returned" /\ raised[f] \notin {"none", "connect"}
        /\ \A x \in {d, e, f} : Count(calls[x], "disconnect") = 1


\* the labels validate_post puts before the outputs, in its order
DiagHeaders == <<"\nshow ip ospf neighbor", "\nshow ip bgp summary",
                 "\nshow ip route | match 0.0.0.0/0">>
DiagSequence == <<"show_ospf", "show_bgp", "show_route">>

\* the three diagnostic commands of task d returned
Validated(d) == Issued(d, "show_route") /\ raised[d] # "show_route"

\* C20: the diagnostics are issued in the order OSPF neighbours, BGP
\* summary, default route, and the evidence holds the labelled outputs in
\* that order; when all three returned the verdict is passing whatever the
\* outputs were, the result carries it, and the evidence is what the
\* validation log receives.
C20_SoftValidation ==
    \A d \in Devices :
        LET diags == SelectSeq(calls[d], LAMBDA c : c \in DiagCalls)
            n == Len(evidence[d])
        IN  /\ Len(diags) <= 3
            /\ diags = SubSeq(DiagSequence, 1, Len(diags))
            /\ n <= Len(diags)
            /\ \A i \in 1..n : /\ evidence[d][i][1] = DiagHeaders[i]
                               /\ evidence[d][i][2] \in DiagOutputs
            /\ Validated(d) =>
                  /\ n = 3
                  /\ validate_post_ok(evidence[d])
                  /\ raised[d] = "none" => (result[d].ok = TRUE /\ result[d].changed = TRUE)
            /\ (Issued(d, "write_log") /\ raised[d] = "none") =>
                  (d \in DOMAIN LOG_DIR /\ LOG_DIR[d] = evidence[d])

\* a task whose three diagnostics all came back without any signature
\* returned a passing result
C20_Witness ==
    \E d \in Devices :
        /\ pc[d] = "returned" /\ raised[d] = "none" /\ Validated(d)
        /\ \A i \in 1..3 : evidence[d][i][2] = "empty"
        /\ result[d].ok = TRUE
        /\ LOG_DIR[d] = evidence[d]

====
